---- MODULE Spec2Model ----
(***************************************************************************)
(* Vehicle counting core: LineCrossingCounter (line_counter.py) and        *)
(* SimpleTracker (simple_tracker.py).                                      *)
(*                                                                         *)
(* Python values are modelled as follows.                                  *)
(*   - Optional[bool] (side of the line): the strings "True" (above),      *)
(*     "False" (below) and "None".                                         *)
(*   - Optional[VehicleCategory]: the category's string value or "None".   *)
(*   - a dict: a function whose DOMAIN is the set of keys present; the     *)
(*     per-track vote dict, whose iteration order matters to max(), is a   *)
(*     sequence of <<category, count>> items in insertion order.           *)
(*   - pixel coordinates: integers (the code only compares and subtracts   *)
(*     them).                                                              *)
(***************************************************************************)
EXTENDS Integers, Sequences, FiniteSets, TLC

VARIABLES
    counters,      \* invert_directions -> a LineCrossingCounter object
    tracker,       \* the SimpleTracker object
    last_frame,    \* frame_idx of the last SimpleTracker.update call
    last_dets,     \* detections of the last SimpleTracker.update call
    assignments,   \* the list that call returned
    returned_ids   \* history: the track ids returned by all calls so far

vars == <<counters, tracker, last_frame, last_dets, assignments, returned_ids>>

None == "None"

(***************************************************************************)
(* Bounds and input domains                                                *)
(***************************************************************************)

\* Cap on the number of category votes held by one counter (sum over tracks).
MaxVotes == 2

\* Line(y_px=10) as in the repository's tests.
LineY == 10

\* line_margin_px values given to the constructor (negative ones are clamped).
Margins == {-1, 0, 2}

TrackIds == {1, 2}

\* y coordinates of observed anchors: clearly above, on the band's upper
\* bound for margin 2, on the line, on the band's lower bound, clearly below.
Ys == {5, 8, 10, 12, 15}

VehicleCategory == {"car", "bike", "bus", "truck"}

\* Class labels: the five mapped ones and one that is not in the table.
ClassNames == {"car", "bus", "truck", "motorcycle", "bicycle", "person"}

\* Mutant of COCO_CLASS_TO_CATEGORY: "bicycle" is not a vehicle label.
COCO_CLASS_TO_CATEGORY_NoBicycle ==
    [n \in {"car", "bus", "truck", "motorcycle"} |->
        IF n = "motorcycle" THEN "bike" ELSE n]

COCO_CLASS_TO_CATEGORY ==
    [n \in {"car", "bus", "truck", "motorcycle", "bicycle"} |->
        CASE n = "car" -> "car"
          [] n = "bus" -> "bus"
          [] n = "truck" -> "truck"
          [] n = "motorcycle" -> "bike"
          [] n = "bicycle" -> "bike"]

TrackObservation ==
    [track_id : TrackIds,
     center_xy : {<<5, y>> : y \in Ys},
     coco_class_name : ClassNames,
     is_confirmed : BOOLEAN]

\* Observations used for the two-element lists of one update call.
PairObservation ==
    {o \in TrackObservation :
        /\ o.center_xy[2] \in {5, 15}
        /\ o.coco_class_name \in {"car", "person"}
        /\ o.is_confirmed}

ObservationLists ==
    {<<>>} \cup {<<o>> : o \in TrackObservation}
           \cup {<<o1, o2>> : o1 \in PairObservation, o2 \in PairObservation}

(***************************************************************************)
(* Counts                                                                  *)
(***************************************************************************)

ZeroByCategory == [c \in VehicleCategory |-> 0]

Counts ==
    [total |-> 0,
     by_category |-> ZeroByCategory,
     total_in |-> 0,
     total_out |-> 0,
     by_category_in |-> ZeroByCategory,
     by_category_out |-> ZeroByCategory]

(***************************************************************************)
(* LineCrossingCounter                                                     *)
(***************************************************************************)

LineCrossingCounter(line, invert_directions, line_margin_px) ==
    [line |-> line,
     invert_directions |-> invert_directions,
     margin_px |-> IF line_margin_px > 0 THEN line_margin_px ELSE 0,
     is_above_by_track |-> <<>>,
     counted_track_ids |-> {},
     category_votes |-> <<>>,
     counts |-> Counts]

\* dict.get(key): the value, or None when the key is absent.
Get(d, k) == IF k \in DOMAIN d THEN d[k] ELSE None

\* d[k] = v on a dict.
Put(d, k, v) == [x \in (DOMAIN d) \cup {k} |-> IF x = k THEN v ELSE d[x]]

\* votes[category] = votes.get(category, 0) + 1 on the ordered item list.
AddVote(votes, category) ==
    IF \E i \in 1..Len(votes) : votes[i][1] = category
    THEN [i \in 1..Len(votes) |->
            IF votes[i][1] = category
            THEN <<category, votes[i][2] + 1>>
            ELSE votes[i]]
    ELSE Append(votes, <<category, 1>>)

\* Mutant of VoteCategory: a counted track collects no more votes.
VoteCategory_UnlessCounted(c, track_id, coco_class_name) ==
    LET category == Get(COCO_CLASS_TO_CATEGORY, coco_class_name) IN
    IF category = None \/ track_id \in c.counted_track_ids
    THEN c
    ELSE LET votes == IF track_id \in DOMAIN c.category_votes
                      THEN c.category_votes[track_id]
                      ELSE <<>>
         IN [c EXCEPT !.category_votes =
                Put(c.category_votes, track_id, AddVote(votes, category))]

VoteCategory(c, track_id, coco_class_name) ==
    LET category == Get(COCO_CLASS_TO_CATEGORY, coco_class_name) IN
    IF category = None
    THEN c
    ELSE LET votes == IF track_id \in DOMAIN c.category_votes
                      THEN c.category_votes[track_id]
                      ELSE <<>>
         IN [c EXCEPT !.category_votes =
                Put(c.category_votes, track_id, AddVote(votes, category))]

\* Mutant of BestCategory: a track without votes is taken for a car.
BestCategory_DefaultCar(c, track_id) ==
    IF track_id \notin DOMAIN c.category_votes
          \/ c.category_votes[track_id] = <<>>
    THEN "car"
    ELSE c.category_votes[track_id][1][1]

\* Mutant of BestCategory: among the categories with the maximal count, the
\* one voted for last.
BestCategory_LastMax(c, track_id) ==
    IF track_id \notin DOMAIN c.category_votes
          \/ c.category_votes[track_id] = <<>>
    THEN None
    ELSE LET votes == c.category_votes[track_id]
             i == CHOOSE i \in 1..Len(votes) :
                    /\ \A j \in 1..Len(votes) : votes[j][2] <= votes[i][2]
                    /\ \A j \in (i + 1)..Len(votes) : votes[j][2] < votes[i][2]
         IN votes[i][1]

\* Mutant of BestCategory: the category whose first vote came last, whatever
\* its count.
BestCategory_LastInserted(c, track_id) ==
    IF track_id \notin DOMAIN c.category_votes
          \/ c.category_votes[track_id] = <<>>
    THEN None
    ELSE c.category_votes[track_id][Len(c.category_votes[track_id])][1]

\* Mutant of BestCategory: the first category voted for, whatever its count.
BestCategory_FirstVoted(c, track_id) ==
    IF track_id \notin DOMAIN c.category_votes
          \/ c.category_votes[track_id] = <<>>
    THEN None
    ELSE c.category_votes[track_id][1][1]

\* max(votes.items(), key=lambda kv: kv[1])[0]: the first item, in
\* insertion order, whose count is maximal.
BestCategory(c, track_id) ==
    IF track_id \notin DOMAIN c.category_votes
          \/ c.category_votes[track_id] = <<>>
    THEN None
    ELSE LET votes == c.category_votes[track_id]
             i == CHOOSE i \in 1..Len(votes) :
                    /\ \A j \in 1..Len(votes) : votes[j][2] <= votes[i][2]
                    /\ \A j \in 1..(i - 1) : votes[j][2] < votes[i][2]
         IN votes[i][1]

\* Mutant of GetCurrentState: the band's bounds belong to the sides.
GetCurrentState_BoundsOutside(c, y) ==
    IF y <= c.line - c.margin_px THEN "True"
    ELSE IF y >= c.line + c.margin_px THEN "False"
    ELSE None

GetCurrentState(c, y) ==
    IF y < c.line - c.margin_px THEN "True"
    ELSE IF y > c.line + c.margin_px THEN "False"
    ELSE None

\* Mutant of AlreadyCounted: the counted set is not consulted.
AlreadyCounted_Never(c, track_id) == FALSE

AlreadyCounted(c, track_id) == track_id \in c.counted_track_ids

\* Mutant of MovedIn: invert_directions is ignored.
MovedIn_NoInvert(c, prev_is_above, current_is_above) ==
    (prev_is_above = "True") /\ (current_is_above = "False")

\* Mutant of MovedIn: "in" is the movement from below to above.
MovedIn_FromBelow(c, prev_is_above, current_is_above) ==
    LET moved_in == (prev_is_above = "False") /\ (current_is_above = "True")
    IN IF c.invert_directions THEN ~moved_in ELSE moved_in

MovedIn(c, prev_is_above, current_is_above) ==
    LET moved_in == (prev_is_above = "True") /\ (current_is_above = "False") IN
    IF c.invert_directions THEN ~moved_in ELSE moved_in

\* Mutant of CountTrack: by_category is not incremented.
CountTrack_NoCategory(c, track_id, category, moved_in) ==
    LET k == c.counts
        k1 == [k EXCEPT !.total = @ + 1]
        k2 == IF moved_in
              THEN [k1 EXCEPT !.total_in = @ + 1,
                              !.by_category_in[category] = @ + 1]
              ELSE [k1 EXCEPT !.total_out = @ + 1,
                              !.by_category_out[category] = @ + 1]
    IN [c EXCEPT !.counted_track_ids = @ \cup {track_id}, !.counts = k2]

\* Mutant of CountTrack: the else branch (out) is missing.
CountTrack_NoOut(c, track_id, category, moved_in) ==
    LET k == c.counts
        k1 == [k EXCEPT !.total = @ + 1, !.by_category[category] = @ + 1]
        k2 == IF moved_in
              THEN [k1 EXCEPT !.total_in = @ + 1,
                              !.by_category_in[category] = @ + 1]
              ELSE k1
    IN [c EXCEPT !.counted_track_ids = @ \cup {track_id}, !.counts = k2]

\* Mutant of CountTrack: the directional per-category entries are swapped.
CountTrack_SwappedDirCategory(c, track_id, category, moved_in) ==
    LET k == c.counts
        k1 == [k EXCEPT !.total = @ + 1, !.by_category[category] = @ + 1]
        k2 == IF moved_in
              THEN [k1 EXCEPT !.total_in = @ + 1,
                              !.by_category_in["car"] = @ + 1]
              ELSE [k1 EXCEPT !.total_out = @ + 1,
                              !.by_category_out["car"] = @ + 1]
    IN [c EXCEPT !.counted_track_ids = @ \cup {track_id}, !.counts = k2]

\* Mutant of CountTrack: the track id is not added to the counted set.
CountTrack_NotRemembered(c, track_id, category, moved_in) ==
    LET k == c.counts
        k1 == [k EXCEPT !.total = @ + 1, !.by_category[category] = @ + 1]
        k2 == IF moved_in
              THEN [k1 EXCEPT !.total_in = @ + 1,
                              !.by_category_in[category] = @ + 1]
              ELSE [k1 EXCEPT !.total_out = @ + 1,
                              !.by_category_out[category] = @ + 1]
    IN [c EXCEPT !.counts = k2]

\* Mutant of CountTrack: the per-category "in" counter is not incremented.
CountTrack_NoCategoryIn(c, track_id, category, moved_in) ==
    LET k == c.counts
        k1 == [k EXCEPT !.total = @ + 1, !.by_category[category] = @ + 1]
        k2 == IF moved_in
              THEN [k1 EXCEPT !.total_in = @ + 1]
              ELSE [k1 EXCEPT !.total_out = @ + 1,
                              !.by_category_out[category] = @ + 1]
    IN [c EXCEPT !.counted_track_ids = @ \cup {track_id}, !.counts = k2]

CountTrack(c, track_id, category, moved_in) ==
    LET k == c.counts
        k1 == [k EXCEPT !.total = @ + 1, !.by_category[category] = @ + 1]
        k2 == IF moved_in
              THEN [k1 EXCEPT !.total_in = @ + 1,
                              !.by_category_in[category] = @ + 1]
              ELSE [k1 EXCEPT !.total_out = @ + 1,
                              !.by_category_out[category] = @ + 1]
    IN [c EXCEPT !.counted_track_ids = @ \cup {track_id}, !.counts = k2]

\* Mutant of OnCrossing: a crossing without a category uses up the track.
OnCrossing_MarksVoteless(c, track_id, prev_is_above, current_is_above) ==
    IF AlreadyCounted(c, track_id)
    THEN c
    ELSE LET category == BestCategory(c, track_id) IN
         IF category = None
         THEN [c EXCEPT !.counted_track_ids = @ \cup {track_id}]
         ELSE CountTrack(c, track_id, category,
                         MovedIn(c, prev_is_above, current_is_above))

\* A side transition was seen: the part of the loop body after line 174.
OnCrossing(c, track_id, prev_is_above, current_is_above) ==
    IF AlreadyCounted(c, track_id)
    THEN c
    ELSE LET category == BestCategory(c, track_id) IN
         IF category = None
         THEN c
         ELSE CountTrack(c, track_id, category,
                         MovedIn(c, prev_is_above, current_is_above))

\* Mutant of UpdateObservation: a first classified sighting (no previous
\* side) is taken for a crossing.
UpdateObservation_FirstSightingCrosses(c, obs) ==
    LET c1 == VoteCategory(c, obs.track_id, obs.coco_class_name)
        y == obs.center_xy[2]
        current_is_above == GetCurrentState(c1, y)
    IN IF current_is_above = None
       THEN c1
       ELSE LET prev_is_above == Get(c1.is_above_by_track, obs.track_id)
                c2 == [c1 EXCEPT !.is_above_by_track =
                          Put(c1.is_above_by_track, obs.track_id, current_is_above)]
            IN IF prev_is_above = current_is_above THEN c2
               ELSE OnCrossing(c2, obs.track_id, prev_is_above, current_is_above)

\* Mutant of UpdateObservation: the side of an already counted track is no
\* longer recorded.
UpdateObservation_CountedKeepsSide(c, obs) ==
    LET c1 == VoteCategory(c, obs.track_id, obs.coco_class_name)
        y == obs.center_xy[2]
        current_is_above == GetCurrentState(c1, y)
    IN IF current_is_above = None \/ AlreadyCounted(c1, obs.track_id)
       THEN c1
       ELSE LET prev_is_above == Get(c1.is_above_by_track, obs.track_id)
                c2 == [c1 EXCEPT !.is_above_by_track =
                          Put(c1.is_above_by_track, obs.track_id, current_is_above)]
            IN IF prev_is_above = None THEN c2
               ELSE IF prev_is_above = current_is_above THEN c2
               ELSE OnCrossing(c2, obs.track_id, prev_is_above, current_is_above)

\* One iteration of the loop of update.
UpdateObservation(c, obs) ==
    LET c1 == VoteCategory(c, obs.track_id, obs.coco_class_name)
        y == obs.center_xy[2]
        current_is_above == GetCurrentState(c1, y)
    IN IF current_is_above = None
       THEN c1
       ELSE LET prev_is_above == Get(c1.is_above_by_track, obs.track_id)
                c2 == [c1 EXCEPT !.is_above_by_track =
                          Put(c1.is_above_by_track, obs.track_id, current_is_above)]
            IN IF prev_is_above = None THEN c2
               ELSE IF prev_is_above = current_is_above THEN c2
               ELSE OnCrossing(c2, obs.track_id, prev_is_above, current_is_above)

RECURSIVE update(_, _)
update(c, observations) ==
    IF observations = <<>>
    THEN c
    ELSE update(UpdateObservation(c, Head(observations)), Tail(observations))

RECURSIVE SumVotes(_)
SumVotes(votes) ==
    IF votes = <<>> THEN 0 ELSE Head(votes)[2] + SumVotes(Tail(votes))

RECURSIVE SumOver(_, _)
SumOver(f, S) ==
    IF S = {} THEN 0
    ELSE LET x == CHOOSE x \in S : TRUE IN f[x] + SumOver(f, S \ {x})

TotalVotes(c) ==
    SumOver([t \in DOMAIN c.category_votes |-> SumVotes(c.category_votes[t])],
            DOMAIN c.category_votes)

(***************************************************************************)
(* SimpleTracker                                                           *)
(***************************************************************************)

\* Last frame index the model passes to SimpleTracker.update.
MaxFrame == 4

\* Cap on the number of tracks one tracker creates (next_id - 1).
MaxTracks == 3

\* frame_idx advances by one of these from call to call.
FrameSteps == {1, 2}

\* max_age_frames and max_match_distance_px given to the constructor.
MaxAgeFrames == {1, 2}
MaxMatchDistancePx == {4}

\* Anchor points of detections; their distances are 3, 4, 5, 6, 9 and
\* sqrt(52), so some pairs lie within 4 px, one exactly at 4 px, others beyond.
Points == {<<0, 0>>, <<3, 0>>, <<9, 0>>, <<3, 4>>}

DetClassNames == {"car", "bus"}

\* Detection: xyxy and conf are not read by the tracker and are left out.
Detection == [center_xy : Points, class_name : DetClassNames]

\* Detections of the two-element lists of one update call: one class, so
\* that the two detections compete for the same tracks.
PairDetection == {d \in Detection : d.class_name = "car"}

DetectionLists ==
    {<<>>} \cup {<<d>> : d \in Detection}
           \cup {<<d1, d2>> : d1 \in PairDetection, d2 \in PairDetection}

Track(track_id, center_xy, class_name, last_seen_frame) ==
    [track_id |-> track_id,
     center_xy |-> center_xy,
     class_name |-> class_name,
     last_seen_frame |-> last_seen_frame]

SimpleTracker(max_age_frames, max_match_distance_px) ==
    [next_id |-> 1,
     tracks |-> <<>>,
     max_age_frames |-> max_age_frames,
     max_match_distance_px |-> max_match_distance_px]

\* _dist: the float (dx*dx + dy*dy) ** 0.5 is represented by its square,
\* which orders distances as the square root does.
Dist(a, b) ==
    LET dx == a[1] - b[1]
        dy == a[2] - b[2]
    IN dx * dx + dy * dy

\* d <= max_match_distance_px on a distance given by its square.
\* Mutant of WithinMatchDistance: a detection exactly at the maximum distance
\* is not matched.
WithinMatchDistance_Strict(t, d) ==
    d < t.max_match_distance_px * t.max_match_distance_px

WithinMatchDistance(t, d) ==
    d <= t.max_match_distance_px * t.max_match_distance_px

\* Mutant of DropOldTracks: a track as old as max_age_frames is dropped too.
DropOldTracks_AtMaxAge(t, frame_idx) ==
    LET keep == {tid \in DOMAIN t.tracks :
                    (frame_idx - t.tracks[tid].last_seen_frame) < t.max_age_frames}
    IN [t EXCEPT !.tracks = [tid \in keep |-> t.tracks[tid]]]

\* Mutant of DropOldTracks: no track is ever dropped.
DropOldTracks_KeepAll(t, frame_idx) == t

\* Lines 49-55: drop the tracks older than max_age_frames.
DropOldTracks(t, frame_idx) ==
    LET keep == {tid \in DOMAIN t.tracks :
                    ~((frame_idx - t.tracks[tid].last_seen_frame) > t.max_age_frames)}
    IN [t EXCEPT !.tracks = [tid \in keep |-> t.tracks[tid]]]

\* Mutant of BestTid: among the nearest tracks the one created last.
BestTid_LatestOnTie(t, det, used_track_ids) ==
    LET cand == {tid \in DOMAIN t.tracks :
                    /\ tid \notin used_track_ids
                    /\ t.tracks[tid].class_name = det.class_name}
        d(tid) == Dist(t.tracks[tid].center_xy, det.center_xy)
    IN {tid \in cand :
           \A other \in cand :
               \/ d(tid) < d(other)
               \/ d(tid) = d(other) /\ tid >= other}

\* Lines 62-72: the nearest unused track of the detection's class, as a set
\* that is empty when best_tid stays None.  The dict is iterated in insertion
\* order, which is the order of the ids, and d < best_dist keeps the first of
\* several nearest tracks.
BestTid(t, det, used_track_ids) ==
    LET cand == {tid \in DOMAIN t.tracks :
                    /\ tid \notin used_track_ids
                    /\ t.tracks[tid].class_name = det.class_name}
        d(tid) == Dist(t.tracks[tid].center_xy, det.center_xy)
    IN {tid \in cand :
           \A other \in cand :
               \/ d(tid) < d(other)
               \/ d(tid) = d(other) /\ tid <= other}

\* Mutant of MatchTrack: the anchor stays where the track was created.
MatchTrack_KeepAnchor(t, tid, det, frame_idx) ==
    [t EXCEPT !.tracks[tid].last_seen_frame = frame_idx]

\* Lines 76-80: update the matched track.
MatchTrack(t, tid, det, frame_idx) ==
    [t EXCEPT !.tracks[tid].center_xy = det.center_xy,
              !.tracks[tid].last_seen_frame = frame_idx]

\* Mutant of CreateTrack: next_id is not advanced.
CreateTrack_SameId(t, det, frame_idx) ==
    [t EXCEPT !.tracks = Put(@, t.next_id,
                             Track(t.next_id, det.center_xy, det.class_name, frame_idx))]

\* Lines 83-92: create a new track.
CreateTrack(t, det, frame_idx) ==
    [t EXCEPT !.next_id = @ + 1,
              !.tracks = Put(@, t.next_id,
                             Track(t.next_id, det.center_xy, det.class_name, frame_idx))]

\* Mutant of UseTrackId: a track created in this call is not marked used.
UseTrackId_MatchedOnly(used_track_ids, tid, matched) ==
    IF matched THEN used_track_ids \cup {tid} ELSE used_track_ids

\* Lines 80 and 92: used_track_ids.add(...) after a match and after a creation.
UseTrackId(used_track_ids, tid, matched) == used_track_ids \cup {tid}

\* Lines 61-92: the loop over the detections; st holds the tracker, the
\* assignments so far and used_track_ids.
RECURSIVE MatchLoop(_, _, _)
MatchLoop(st, detections, frame_idx) ==
    IF detections = <<>>
    THEN st
    ELSE LET det == Head(detections)
             t == st.tracker
             best == BestTid(t, det, st.used_track_ids)
             matched == /\ best # {}
                        /\ \A tid \in best :
                              WithinMatchDistance(
                                  t, Dist(t.tracks[tid].center_xy, det.center_xy))
             tid == IF matched THEN CHOOSE x \in best : TRUE ELSE t.next_id
             t2 == IF matched
                   THEN MatchTrack(t, tid, det, frame_idx)
                   ELSE CreateTrack(t, det, frame_idx)
         IN MatchLoop([tracker |-> t2,
                       assignments |-> Append(st.assignments, <<tid, det>>),
                       used_track_ids |->
                           UseTrackId(st.used_track_ids, tid, matched)],
                      Tail(detections), frame_idx)

\* Mutant of TrackerUpdate: the detections are matched last to first; the
\* returned list is still in input order.
TrackerUpdate_LastFirst(t, detections, frame_idx) ==
    LET Reverse(q) == [i \in 1..Len(q) |-> q[Len(q) + 1 - i]]
        st == MatchLoop([tracker |-> DropOldTracks(t, frame_idx),
                         assignments |-> <<>>,
                         used_track_ids |-> {}],
                        Reverse(detections), frame_idx)
    IN [tracker |-> st.tracker, assignments |-> Reverse(st.assignments)]

\* SimpleTracker.update: the tracker after the call and the list it returns.
TrackerUpdate(t, detections, frame_idx) ==
    LET st == MatchLoop([tracker |-> DropOldTracks(t, frame_idx),
                         assignments |-> <<>>,
                         used_track_ids |-> {}],
                        detections, frame_idx)
    IN [tracker |-> st.tracker, assignments |-> st.assignments]

(***************************************************************************)
(* State machine of the counter: two counters that differ only in          *)
(* invert_directions receive the same update calls.                        *)
(***************************************************************************)

InitCounters ==
    \E m \in Margins :
        counters = [inv \in BOOLEAN |-> LineCrossingCounter(LineY, inv, m)]

Update(observations) ==
    LET updated == [inv \in BOOLEAN |-> update(counters[inv], observations)] IN
    /\ \A inv \in BOOLEAN : TotalVotes(updated[inv]) <= MaxVotes
    /\ counters' = updated
    /\ UNCHANGED <<tracker, last_frame, last_dets, assignments, returned_ids>>

UpdateEmpty == Update(<<>>)

UpdateOne == \E o \in TrackObservation : Update(<<o>>)

UpdateTwo == \E o1 \in PairObservation, o2 \in PairObservation : Update(<<o1, o2>>)

\* Most votes the model lets the single track of VoteSpec collect.
MaxTrackVotes == 4

\* The observations of one track.
OneTrackObservation == {o \in TrackObservation : o.track_id = 1}

\* update called with one observation of that track.
UpdateOneTrack ==
    \E o \in OneTrackObservation :
        LET updated == [inv \in BOOLEAN |-> update(counters[inv], <<o>>)] IN
        /\ \A inv \in BOOLEAN : TotalVotes(updated[inv]) <= MaxTrackVotes
        /\ counters' = updated
        /\ UNCHANGED <<tracker, last_frame, last_dets, assignments, returned_ids>>

(***************************************************************************)
(* State machine of the tracker: update is called with increasing frame    *)
(* indices.                                                                *)
(***************************************************************************)

InitTracker ==
    /\ \E a \in MaxAgeFrames, m \in MaxMatchDistancePx :
          tracker = SimpleTracker(a, m)
    /\ last_frame = 0
    /\ last_dets = <<>>
    /\ assignments = <<>>
    /\ returned_ids = {}

TrackerUpdateCall(dets, f) ==
    LET r == TrackerUpdate(tracker, dets, f) IN
    /\ f <= MaxFrame
    /\ r.tracker.next_id <= MaxTracks + 1
    /\ tracker' = r.tracker
    /\ assignments' = r.assignments
    /\ last_dets' = dets
    /\ last_frame' = f
    /\ returned_ids' = returned_ids
                          \cup {r.assignments[i][1] : i \in 1..Len(r.assignments)}
    /\ UNCHANGED counters

TrackEmptyFrame ==
    \E step \in FrameSteps : TrackerUpdateCall(<<>>, last_frame + step)

TrackDetections ==
    \E step \in FrameSteps : \E dets \in DetectionLists \ {<<>>} :
        TrackerUpdateCall(dets, last_frame + step)

TrackerNext == TrackEmptyFrame \/ TrackDetections

\* A tracker with the constructor's defaults that is never called.
IdleTracker ==
    /\ tracker = SimpleTracker(30, 60)
    /\ last_frame = 0
    /\ last_dets = <<>>
    /\ assignments = <<>>
    /\ returned_ids = {}

\* Counters with the constructor's defaults that are never called.
IdleCounters ==
    counters = [inv \in BOOLEAN |-> LineCrossingCounter(LineY, inv, 0)]

Init == InitCounters /\ IdleTracker

Next == UpdateEmpty \/ UpdateOne \/ UpdateTwo

\* The counter under every sequence of update calls.
Spec == Init /\ [][Next]_vars

VoteNext == UpdateOneTrack

\* The counter following one track through a longer history of labels.
VoteSpec == Init /\ [][VoteNext]_vars

TrackerInit == IdleCounters /\ InitTracker

\* The tracker under every sequence of update calls.
TrackerSpec == TrackerInit /\ [][TrackerNext]_vars

(***************************************************************************)
(* Properties of LineCrossingCounter                                       *)
(***************************************************************************)

\* Where the properties speak of a y coordinate: the sides as the documentation
\* defines them.
IsAboveBand(c, y) == y < c.line - c.margin_px
IsBelowBand(c, y) == y > c.line + c.margin_px
InBand(c, y) == c.line - c.margin_px <= y /\ y <= c.line + c.margin_px

HasSide(c, t) == t \in DOMAIN c.is_above_by_track

HasVotes(c, t) ==
    t \in DOMAIN c.category_votes /\ c.category_votes[t] # <<>>

IsMapped(name) == name \in DOMAIN COCO_CLASS_TO_CATEGORY

\* The observation shows its track on the other side than the recorded one.
ChangesSide(c, o) ==
    /\ HasSide(c, o.track_id)
    /\ \/ c.is_above_by_track[o.track_id] = "True" /\ IsBelowBand(c, o.center_xy[2])
       \/ c.is_above_by_track[o.track_id] = "False" /\ IsAboveBand(c, o.center_xy[2])

TracksOf(observations) ==
    {observations[i].track_id : i \in 1..Len(observations)}

\* C1: once a track id is in the counted set, no update call whose
\* observations all belong to counted tracks changes any counter or the
\* counted set, whatever side transitions those observations show.
C1_CountedTrackNeverCountsAgain ==
    \A inv \in BOOLEAN : \A observations \in ObservationLists :
        LET c == counters[inv]
            r == update(c, observations)
        IN TracksOf(observations) \subseteq c.counted_track_ids
            => /\ r.counts = c.counts
               /\ r.counted_track_ids = c.counted_track_ids

\* C1 witness: track 1 was counted on its way down (total_in, not inverted)
\* and has since been seen above the line again, with total still 1.
C1_Witness ==
    LET c == counters[FALSE] IN
    /\ c.counted_track_ids = {1}
    /\ c.counts.total = 1
    /\ c.counts.total_in = 1
    /\ c.is_above_by_track[1] = "True"

\* The number of votes of a category a track has once the observation's own
\* label has been recorded.
VotesAfter(c, o, category) ==
    LET votes == IF HasVotes(c, o.track_id) THEN c.category_votes[o.track_id] ELSE <<>>
        held == {votes[i][2] : i \in {j \in 1..Len(votes) : votes[j][1] = category}}
        old == IF held = {} THEN 0 ELSE CHOOSE n \in held : TRUE
    IN IF IsMapped(o.coco_class_name)
          /\ COCO_CLASS_TO_CATEGORY[o.coco_class_name] = category
       THEN old + 1
       ELSE old

VotedCategories(c, o) ==
    {category \in VehicleCategory : VotesAfter(c, o, category) > 0}

\* The categories no other category outvotes.
MostVotedCategories(c, o) ==
    {category \in VotedCategories(c, o) :
        \A other \in VehicleCategory :
            VotesAfter(c, o, other) <= VotesAfter(c, o, category)}

Bump(f, x) == [f EXCEPT ![x] = @ + 1]

\* The counts after one counting event of the category in the direction.
CountedOnce(k, category, dir) ==
    IF dir = "in"
    THEN [k EXCEPT !.total = @ + 1,
                   !.by_category = Bump(@, category),
                   !.total_in = @ + 1,
                   !.by_category_in = Bump(@, category)]
    ELSE [k EXCEPT !.total = @ + 1,
                   !.by_category = Bump(@, category),
                   !.total_out = @ + 1,
                   !.by_category_out = Bump(@, category)]

\* C2: an observation that makes a not yet counted track with at least one
\* vote change side adds exactly 1 to total, to the by_category entry of a
\* category with the most votes, to one of total_in / total_out and to that
\* category's entry of the same direction, and leaves every other counter
\* unchanged.
C2_CrossingCountsExactlyOne ==
    \A inv \in BOOLEAN : \A o \in TrackObservation :
        LET c == counters[inv]
            r == update(c, <<o>>)
        IN (/\ o.track_id \notin c.counted_track_ids
            /\ ChangesSide(c, o)
            /\ VotedCategories(c, o) # {})
            => /\ \E category \in MostVotedCategories(c, o) : \E dir \in {"in", "out"} :
                     r.counts = CountedOnce(c.counts, category, dir)
               /\ r.counted_track_ids = c.counted_track_ids \cup {o.track_id}

\* C2 witness: the end-to-end scenario's result (one car counted "in").
C2_Witness ==
    LET c == counters[FALSE] IN
    /\ c.counted_track_ids = {1}
    /\ c.counts = CountedOnce(Counts, "car", "in")
    /\ c.is_above_by_track[1] = "False"

\* C3: total = total_in + total_out in every reachable state.
C3_TotalIsInPlusOut ==
    \A inv \in BOOLEAN :
        counters[inv].counts.total =
            counters[inv].counts.total_in + counters[inv].counts.total_out

\* C3 witness: one track counted in and another counted out.
C3_Witness ==
    /\ counters[FALSE].counts.total_in = 1
    /\ counters[FALSE].counts.total_out = 1
    /\ counters[FALSE].counts.total = 2

\* C4: by_category[c] = by_category_in[c] + by_category_out[c] for each
\* category, in every reachable state.
C4_CategoryIsInPlusOut ==
    \A inv \in BOOLEAN : \A cat \in VehicleCategory :
        counters[inv].counts.by_category[cat] =
            counters[inv].counts.by_category_in[cat]
            + counters[inv].counts.by_category_out[cat]

\* C4 witness: a bike counted in and a truck counted out.
C4_Witness ==
    /\ counters[FALSE].counts.by_category_in["bike"] = 1
    /\ counters[FALSE].counts.by_category_out["truck"] = 1
    /\ counters[FALSE].counts.by_category["bike"] = 1
    /\ counters[FALSE].counts.by_category["truck"] = 1

\* C5: the counted set has as many members as total says, in every
\* reachable state, and no step removes a member from it.
C5_CountedSetSizeIsTotal ==
    /\ [](\A inv \in BOOLEAN :
            Cardinality(counters[inv].counted_track_ids) = counters[inv].counts.total)
    /\ [][\A inv \in BOOLEAN :
            counters[inv].counted_track_ids \subseteq counters'[inv].counted_track_ids]_vars

\* C5 witness: both tracks are counted.
C5_Witness ==
    /\ counters[TRUE].counted_track_ids = {1, 2}
    /\ counters[TRUE].counts.total = 2

\* C6: an observation increases a counter only if its track has a recorded
\* side and the observation lies on the other side; a first classified
\* sighting and a repetition of the same observation never increase one.
C6_NoCountWithoutSideChange ==
    \A inv \in BOOLEAN : \A o \in TrackObservation :
        LET c == counters[inv]
            r == update(c, <<o>>)
        IN /\ ~ChangesSide(c, o)
                => r.counts = c.counts /\ r.counted_track_ids = c.counted_track_ids
           /\ update(r, <<o>>).counts = r.counts

\* C6 witness: a track with a vote has had its first classified sighting
\* and nothing is counted.
C6_Witness ==
    LET c == counters[FALSE] IN
    /\ HasSide(c, 1)
    /\ HasVotes(c, 1)
    /\ c.counts = Counts
    /\ c.counted_track_ids = {}

\* C7: a track without any vote is never in the counted set, and an
\* observation with an unmapped label of such a track leaves all counters
\* and the counted set unchanged even when it shows a side transition.
C7_UnmappedNeverCounted ==
    \A inv \in BOOLEAN :
        LET c == counters[inv] IN
        /\ \A t \in c.counted_track_ids : HasVotes(c, t)
        /\ \A o \in TrackObservation :
              (~IsMapped(o.coco_class_name) /\ ~HasVotes(c, o.track_id))
                  => LET r == update(c, <<o>>) IN
                     /\ r.counts = c.counts
                     /\ r.counted_track_ids = c.counted_track_ids
                     /\ ~HasVotes(r, o.track_id)

\* C7 witness: track 1 never got a vote and was last seen above the line;
\* seen below it as a "person", it changes side and nothing is counted.
C7_Witness ==
    LET c == counters[FALSE]
        o == [track_id |-> 1, center_xy |-> <<5, 15>>,
              coco_class_name |-> "person", is_confirmed |-> TRUE]
    IN /\ HasSide(c, 1)
       /\ c.is_above_by_track[1] = "True"
       /\ ~HasVotes(c, 1)
       /\ ChangesSide(c, o)
       /\ update(c, <<o>>).is_above_by_track[1] = "False"
       /\ update(c, <<o>>).counts = Counts
       /\ update(c, <<o>>).counted_track_ids = {}

\* C8: an observation inside the band [line - margin, line + margin] changes
\* neither the recorded sides nor any counter; a not yet counted track with
\* a vote that was last seen above the band, is then seen inside it and then
\* below it, is counted once, at the observation below, as an above-to-below
\* move.
C8_MarginKeepsSide ==
    \A inv \in BOOLEAN : \A o \in TrackObservation :
        LET c == counters[inv]
            r == update(c, <<o>>)
        IN InBand(c, o.center_xy[2])
            => /\ r.is_above_by_track = c.is_above_by_track
               /\ r.counts = c.counts
               /\ r.counted_track_ids = c.counted_track_ids
               /\ (/\ HasSide(c, o.track_id)
                   /\ c.is_above_by_track[o.track_id] = "True"
                   /\ o.track_id \notin c.counted_track_ids
                   /\ HasVotes(r, o.track_id))
                  => \A y3 \in {y \in Ys : IsBelowBand(c, y)} :
                        \E category \in VotedCategories(r, o) :
                            update(r, <<[o EXCEPT !.center_xy = <<5, y3>>]>>).counts =
                                CountedOnce(c.counts, category,
                                            IF inv THEN "out" ELSE "in")

\* C8 witness: with margin 2, track 1 holds a vote, is not counted and was
\* last seen above the band; seen on the band's lower bound (y = 12) it keeps
\* its side, and seen below the band (y = 15) after that it is counted "in".
C8_Witness ==
    LET c == counters[FALSE]
        in_band == [track_id |-> 1, center_xy |-> <<5, 12>>,
                    coco_class_name |-> "person", is_confirmed |-> TRUE]
        below == [track_id |-> 1, center_xy |-> <<5, 15>>,
                  coco_class_name |-> "person", is_confirmed |-> TRUE]
    IN /\ c.margin_px = 2
       /\ HasSide(c, 1) /\ c.is_above_by_track[1] = "True"
       /\ HasVotes(c, 1)
       /\ c.counts = Counts
       /\ update(c, <<in_band>>) = c
       /\ update(c, <<in_band, below>>).counted_track_ids = {1}
       /\ update(c, <<in_band, below>>).counts.total_in = 1

\* C9: the counter with invert_directions set and the one without, fed the
\* same observations, agree on total, by_category and the counted set, and
\* have their in and out totals (overall and per category) exchanged.
C9_InvertSwapsInOut ==
    LET a == counters[FALSE]
        b == counters[TRUE]
    IN /\ a.counts.total = b.counts.total
       /\ a.counts.by_category = b.counts.by_category
       /\ a.counted_track_ids = b.counted_track_ids
       /\ a.counts.total_in = b.counts.total_out
       /\ a.counts.total_out = b.counts.total_in
       /\ a.counts.by_category_in = b.counts.by_category_out
       /\ a.counts.by_category_out = b.counts.by_category_in

\* C9 witness: a bus counted "in" by the plain counter and "out" by the
\* inverted one.
C9_Witness ==
    /\ counters[FALSE].counts.by_category_in["bus"] = 1
    /\ counters[TRUE].counts.by_category_out["bus"] = 1
    /\ counters[TRUE].counts.total_in = 0

(***************************************************************************)
(* Properties of SimpleTracker                                             *)
(***************************************************************************)

\* C10: the list a call returns pairs the call's detections, one by one and
\* in their order, with track ids, and no track id occurs twice in it.
C10_OneIdentityPerDetection ==
    /\ Len(assignments) = Len(last_dets)
    /\ \A i \in 1..Len(assignments) : assignments[i][2] = last_dets[i]
    /\ \A i, j \in 1..Len(assignments) :
          i # j => assignments[i][1] # assignments[j][1]

\* C10 witness: the first call got two equal detections; the second one did
\* not get the id of the track the first one had just created.
C10_Witness ==
    /\ tracker.next_id = 3
    /\ Len(assignments) = 2
    /\ assignments[1][2] = assignments[2][2]
    /\ assignments[1][1] = 1
    /\ assignments[2][1] = 2
    /\ tracker.tracks[1].last_seen_frame = last_frame
    /\ tracker.tracks[2].last_seen_frame = last_frame

\* The tracks of the tracker that a call with frame index f has not dropped
\* when it starts matching: those not older than max_age_frames.
LiveAt(t, f) ==
    {tid \in DOMAIN t.tracks : f - t.tracks[tid].last_seen_frame <= t.max_age_frames}

AssignedIds(a) == {a[i][1] : i \in 1..Len(a)}

\* C11: the id a call gives to a newly created track (an id that is not the
\* id of a track that was live when the call started) is greater than every
\* id any earlier call returned, and within the call later creations get
\* greater ids; every returned id is below next_id.
C11_IdsIncreaseNeverReused ==
    /\ [](\A id \in returned_ids \cup DOMAIN tracker.tracks : id < tracker.next_id)
    /\ [][\A i \in 1..Len(assignments') :
            assignments'[i][1] \notin LiveAt(tracker, last_frame')
                => /\ \A id \in returned_ids : assignments'[i][1] > id
                   /\ \A j \in 1..(i - 1) : assignments'[i][1] > assignments'[j][1]]_vars

\* C11 witness: track 1 has expired and the track created after that got id 2.
C11_Witness ==
    /\ returned_ids = {1, 2}
    /\ DOMAIN tracker.tracks = {2}
    /\ AssignedIds(assignments) = {2}
    /\ tracker.next_id = 3

\* A detection that a live track of its class could take: same class, not
\* farther than max_match_distance_px from the track's anchor.
Reaches(t, tid, det) ==
    /\ t.tracks[tid].class_name = det.class_name
    /\ Dist(t.tracks[tid].center_xy, det.center_xy)
         <= t.max_match_distance_px * t.max_match_distance_px

\* The track was not seen in the frame before f.
Occluded(t, tid, f) == f - t.tracks[tid].last_seen_frame >= 2

\* C12 as stated: whenever a call holds a detection of the class of an occluded
\* track that is still live, not farther than max_match_distance_px from the
\* track's anchor, the call returns that track's id.
C12_OccludedTrackKeepsIdentity ==
    [][\A tid \in LiveAt(tracker, last_frame') :
         (/\ Occluded(tracker, tid, last_frame')
          /\ \E i \in 1..Len(last_dets') : Reaches(tracker, tid, last_dets'[i]))
            => tid \in AssignedIds(assignments')]_vars

\* No other live track of the detection's class is as near to it as tid is.
StrictlyNearest(t, tid, det, f) ==
    \A other \in LiveAt(t, f) \ {tid} :
        t.tracks[other].class_name = det.class_name
            => Dist(t.tracks[other].center_xy, det.center_xy)
                 > Dist(t.tracks[tid].center_xy, det.center_xy)

\* C12 amended: the detection is returned with the id of the occluded track
\* when, in addition, no other live track of that class is as near to the
\* detection and no earlier detection of the same call has taken the track.
C12_OccludedNearestTrackKeepsIdentity ==
    [][\A tid \in LiveAt(tracker, last_frame') :
         \A i \in 1..Len(last_dets') :
            (/\ Occluded(tracker, tid, last_frame')
             /\ Reaches(tracker, tid, last_dets'[i])
             /\ StrictlyNearest(tracker, tid, last_dets'[i], last_frame')
             /\ \A j \in 1..(i - 1) : assignments'[j][1] # tid)
                => assignments'[i][1] = tid]_vars

\* C12 witness: track 1 was not detected in the last frame (an empty call), is
\* one frame short of expiring, and a detection at the maximum distance in the
\* next frame gets id 1 again.
C12_Witness ==
    /\ last_dets = <<>>
    /\ DOMAIN tracker.tracks = {1}
    /\ tracker.max_age_frames = 2
    /\ tracker.tracks[1].last_seen_frame = last_frame - 1
    /\ tracker.tracks[1].center_xy = <<3, 0>>
    /\ TrackerUpdate(tracker,
                     <<[center_xy |-> <<3, 4>>,
                        class_name |-> tracker.tracks[1].class_name]>>,
                     last_frame + 1).assignments[1][1] = 1

\* C13: a detection that no live track of its class reaches (each is farther
\* than max_match_distance_px, or there is none) is returned with an id that no
\* earlier call returned and no earlier detection of this call was given.
C13_UnmatchedDetectionGetsFreshId ==
    [][\A i \in 1..Len(last_dets') :
         (\A tid \in LiveAt(tracker, last_frame') :
             ~Reaches(tracker, tid, last_dets'[i]))
            => /\ assignments'[i][1] \notin returned_ids
               /\ \A j \in 1..(i - 1) : assignments'[i][1] # assignments'[j][1]]_vars

\* C13 witness: track 1 is about to expire; a detection of its class at its
\* very anchor in the frame after that gets the new id 2, and track 1 is gone.
C13_Witness ==
    /\ DOMAIN tracker.tracks = {1}
    /\ tracker.next_id = 2
    /\ last_frame - tracker.tracks[1].last_seen_frame = tracker.max_age_frames
    /\ LET r == TrackerUpdate(tracker,
                              <<[center_xy |-> tracker.tracks[1].center_xy,
                                 class_name |-> tracker.tracks[1].class_name]>>,
                              last_frame + 1)
       IN /\ r.assignments[1][1] = 2
          /\ DOMAIN r.tracker.tracks = {2}

(***************************************************************************)
(* Properties of the category vote                                         *)
(***************************************************************************)

\* The votes a track holds for a category.
VotesOf(c, t, category) ==
    IF t \notin DOMAIN c.category_votes THEN 0
    ELSE LET votes == c.category_votes[t]
             at == {i \in 1..Len(votes) : votes[i][1] = category}
         IN IF at = {} THEN 0 ELSE votes[CHOOSE i \in at : TRUE][2]

HasMostVotes(c, t, category) ==
    \A other \in VehicleCategory : VotesOf(c, t, other) <= VotesOf(c, t, category)

\* C14 as stated: in every reachable state the increment of a counted track
\* sits in a category that has the most votes among all the votes the track
\* has collected so far.
C14_CountedCategoryHasMostVotesEver ==
    \A inv \in BOOLEAN :
        LET c == counters[inv] IN
        1 \in c.counted_track_ids
            => \A category \in VehicleCategory :
                   c.counts.by_category[category] = 1 => HasMostVotes(c, 1, category)

\* C14 amended: the step that counts the track adds its increment to a
\* category that has the most votes once the counting observation's own vote
\* is recorded, and no later step moves the increment.
C14_CountedCategoryHasMostVotesWhenCounted ==
    [][\A inv \in BOOLEAN :
         LET c == counters[inv]
             r == counters'[inv]
         IN /\ (1 \notin c.counted_track_ids /\ 1 \in r.counted_track_ids)
                  => \E category \in VehicleCategory :
                        /\ HasMostVotes(r, 1, category)
                        /\ r.counts.by_category = Bump(c.counts.by_category, category)
            /\ 1 \in c.counted_track_ids
                  => r.counts.by_category = c.counts.by_category]_vars

\* C14 witness: the track was counted as a car and has since collected more
\* bike votes than car votes.
C14_Witness ==
    LET c == counters[FALSE] IN
    /\ 1 \in c.counted_track_ids
    /\ c.counts.by_category["car"] = 1
    /\ VotesOf(c, 1, "bike") > VotesOf(c, 1, "car")

\* C15: a crossing by a not yet counted track that was only ever observed with
\* one label adds 1 to total and to by_category of that label's category:
\* bike for "bicycle" and for "motorcycle", and car, bus, truck for the labels
\* of the same names.
C15_LabelsCountInTheirCategory ==
    \A inv \in BOOLEAN :
        LET c == counters[inv] IN
        \A o \in TrackObservation :
            LET category == IF o.coco_class_name \in {"bicycle", "motorcycle"}
                            THEN "bike" ELSE o.coco_class_name
            IN (/\ o.coco_class_name \in {"car", "bus", "truck", "motorcycle", "bicycle"}
                /\ o.track_id \notin c.counted_track_ids
                /\ ChangesSide(c, o)
                /\ \A other \in VehicleCategory \ {category} :
                       VotesOf(c, o.track_id, other) = 0)
                  => LET r == update(c, <<o>>) IN
                     /\ r.counts.total = c.counts.total + 1
                     /\ r.counts.by_category = Bump(c.counts.by_category, category)

\* C15 witness: two tracks, each with bike votes only, have crossed and
\* by_category[bike] = total = 2.
C15_Witness ==
    LET c == counters[FALSE] IN
    /\ c.counted_track_ids = {1, 2}
    /\ c.counts.total = 2
    /\ c.counts.by_category["bike"] = 2
    /\ VotesOf(c, 1, "bike") = 1
    /\ VotesOf(c, 2, "bike") = 1

\* C17: an observation with is_confirmed = False changes no counter and not
\* the counted set, whatever side it shows its track on.
C17_UnconfirmedNeverCounts ==
    \A inv \in BOOLEAN :
        LET c == counters[inv] IN
        \A o \in TrackObservation :
            (~o.is_confirmed /\ ChangesSide(c, o))
                => LET r == update(c, <<o>>) IN
                   /\ r.counts = c.counts
                   /\ r.counted_track_ids = c.counted_track_ids

\* C18: a counted movement from above the line to below it adds to total_in
\* and by_category_in when invert_directions is false and to total_out and
\* by_category_out when it is true; a movement from below to above does the
\* opposite; the other direction's counters stay as they are.
C18_DirectionRule ==
    \A inv \in BOOLEAN :
        LET c == counters[inv] IN
        \A o \in TrackObservation :
            (/\ o.track_id \notin c.counted_track_ids
             /\ ChangesSide(c, o)
             /\ VotedCategories(c, o) # {})
                => LET r == update(c, <<o>>)
                       downwards == c.is_above_by_track[o.track_id] = "True"
                       into == IF c.invert_directions THEN ~downwards ELSE downwards
                   IN IF into
                      THEN /\ r.counts.total_in = c.counts.total_in + 1
                           /\ \E category \in VehicleCategory :
                                r.counts.by_category_in
                                    = Bump(c.counts.by_category_in, category)
                           /\ r.counts.total_out = c.counts.total_out
                           /\ r.counts.by_category_out = c.counts.by_category_out
                      ELSE /\ r.counts.total_out = c.counts.total_out + 1
                           /\ \E category \in VehicleCategory :
                                r.counts.by_category_out
                                    = Bump(c.counts.by_category_out, category)
                           /\ r.counts.total_in = c.counts.total_in
                           /\ r.counts.by_category_in = c.counts.by_category_in

\* C18 witness: a truck that went from below the line to above it is counted
\* "out" by the plain counter and "in" by the inverted one.
C18_Witness ==
    /\ HasSide(counters[FALSE], 1)
    /\ counters[FALSE].is_above_by_track[1] = "True"
    /\ counters[FALSE].counts.by_category_out["truck"] = 1
    /\ counters[FALSE].counts.total_in = 0
    /\ counters[TRUE].counts.by_category_in["truck"] = 1
    /\ counters[TRUE].counts.total_out = 0

(***************************************************************************)
(* Properties of SimpleTracker across frames                               *)
(***************************************************************************)

\* C16: a lone track seen in the last frame, detected in the next frame
\* displaced by v, not detected in the frame after that, and detected with the
\* same class one frame later at its last anchor plus 2 v (the position it
\* reaches at constant velocity), while max_age_frames allows the gap, is
\* returned with its original id.
C16_PredictsThroughGap ==
    \A tid \in DOMAIN tracker.tracks : \A p1 \in Points, p3 \in Points :
        LET trk == tracker.tracks[tid]
            v == <<p1[1] - trk.center_xy[1], p1[2] - trk.center_xy[2]>>
            det1 == [center_xy |-> p1, class_name |-> trk.class_name]
            det3 == [center_xy |-> p3, class_name |-> trk.class_name]
            r1 == TrackerUpdate(tracker, <<det1>>, last_frame + 1)
            r2 == TrackerUpdate(r1.tracker, <<>>, last_frame + 2)
            r3 == TrackerUpdate(r2.tracker, <<det3>>, last_frame + 3)
        IN (/\ DOMAIN tracker.tracks = {tid}
            /\ trk.last_seen_frame = last_frame
            /\ tracker.max_age_frames >= 2
            /\ r1.assignments[1][1] = tid
            /\ p3 = <<p1[1] + 2 * v[1], p1[2] + 2 * v[2]>>)
              => r3.assignments[1][1] = tid

\* C19: every call, also one without detections, removes exactly the tracks
\* with frame_idx - last_seen_frame > max_age_frames before it matches; a track
\* whose age equals max_age_frames stays and takes a detection that only it
\* is nearest to; an id the call returns is the id of a track that was not
\* removed or an id never returned before, so a removed track's id never
\* comes back.
C19_ExpiryAtCallStart ==
    /\ [](DOMAIN tracker.tracks \subseteq returned_ids)
    /\ [][LET f == last_frame'
              age(tid) == f - tracker.tracks[tid].last_seen_frame
          IN /\ DOMAIN tracker.tracks \ DOMAIN tracker'.tracks
                  = {tid \in DOMAIN tracker.tracks : age(tid) > tracker.max_age_frames}
             /\ \A tid \in DOMAIN tracker.tracks :
                  (/\ age(tid) = tracker.max_age_frames
                   /\ last_dets' # <<>>
                   /\ Reaches(tracker, tid, last_dets'[1])
                   /\ StrictlyNearest(tracker, tid, last_dets'[1], f))
                     => assignments'[1][1] = tid
             /\ \A id \in AssignedIds(assignments') :
                  \/ id \in DOMAIN tracker.tracks /\ age(id) <= tracker.max_age_frames
                  \/ id \notin returned_ids]_vars

\* C19 witness: after a call without detections track 1 is exactly
\* max_age_frames old and still there; the next call, again without
\* detections, removes it.
C19_Witness ==
    /\ last_dets = <<>>
    /\ DOMAIN tracker.tracks = {1}
    /\ last_frame - tracker.tracks[1].last_seen_frame = tracker.max_age_frames
    /\ TrackerUpdate(tracker, <<>>, last_frame + 1).tracker.tracks = <<>>

\* The live tracks of the detection's class that are nearest to it among S.
NearestIn(t, S, det) ==
    {tid \in S :
        /\ t.tracks[tid].class_name = det.class_name
        /\ \A other \in S :
              t.tracks[other].class_name = det.class_name
                 => Dist(t.tracks[tid].center_xy, det.center_xy)
                      <= Dist(t.tracks[other].center_xy, det.center_xy)}

\* C20: when the two detections of a call have the same class and the same
\* live track is the nearest one to each of them, within
\* max_match_distance_px, the first detection gets that track and the second
\* gets a nearest one of the remaining live tracks of the class if that is
\* within max_match_distance_px, and an id never returned before otherwise.
C20_GreedyInInputOrder ==
    [][\A tid \in LiveAt(tracker, last_frame') :
         (/\ Len(last_dets') = 2
          /\ last_dets'[1].class_name = last_dets'[2].class_name
          /\ \A i \in {1, 2} :
                /\ Reaches(tracker, tid, last_dets'[i])
                /\ StrictlyNearest(tracker, tid, last_dets'[i], last_frame'))
            => LET rest == NearestIn(tracker, LiveAt(tracker, last_frame') \ {tid},
                                     last_dets'[2])
                   second == assignments'[2][1]
               IN /\ assignments'[1][1] = tid
                  /\ IF \E other \in rest : Reaches(tracker, other, last_dets'[2])
                     THEN second \in rest
                     ELSE second \notin returned_ids /\ second # tid]_vars

\* C20 witness: the only live track stands at (3,0); of two detections of its
\* class, first (0,0) then (3,0), the first gets the track and the second a
\* new id, although the second lies on the track's anchor.
C20_Witness ==
    /\ DOMAIN tracker.tracks = {1}
    /\ tracker.next_id = 2
    /\ tracker.tracks[1].center_xy = <<3, 0>>
    /\ LET class == tracker.tracks[1].class_name
           r == TrackerUpdate(tracker,
                              <<[center_xy |-> <<0, 0>>, class_name |-> class],
                                [center_xy |-> <<3, 0>>, class_name |-> class]>>,
                              last_frame + 1)
       IN /\ r.assignments[1][1] = 1
          /\ r.assignments[2][1] = 2

(***************************************************************************)
(* Properties of ties in the category vote                                 *)
(***************************************************************************)

\* The place of the category in the order of first votes of the track;
\* 0 when the track has no vote for it.
FirstVoteIndex(c, t, category) ==
    IF t \notin DOMAIN c.category_votes THEN 0
    ELSE LET votes == c.category_votes[t]
             at == {i \in 1..Len(votes) : votes[i][1] = category}
         IN IF at = {} THEN 0 ELSE CHOOSE i \in at : TRUE

\* C21: the step that counts the track adds its increment to the category
\* that, among the categories with the maximal vote count, received its first
\* vote earliest.
C21_TieGoesToFirstVoted ==
    [][\A inv \in BOOLEAN :
         LET c == counters[inv]
             r == counters'[inv]
         IN (1 \notin c.counted_track_ids /\ 1 \in r.counted_track_ids)
               => \E category \in VehicleCategory :
                     /\ HasMostVotes(r, 1, category)
                     /\ \A other \in VehicleCategory \ {category} :
                           HasMostVotes(r, 1, other)
                              => FirstVoteIndex(r, 1, category)
                                   < FirstVoteIndex(r, 1, other)
                     /\ r.counts.by_category
                          = Bump(c.counts.by_category, category)]_vars

\* C21 witness: the track holds the votes car 1, bike 2 (car voted first) and
\* is counted at a crossing observed with a car label: car and bike tie at 2
\* and the increment goes to car.
C21_Witness ==
    LET c == counters[FALSE]
        o == [track_id |-> 1, center_xy |-> <<5, 15>>,
              coco_class_name |-> "car", is_confirmed |-> TRUE]
    IN /\ 1 \notin c.counted_track_ids
       /\ ChangesSide(c, o)
       /\ HasVotes(c, 1)
       /\ c.category_votes[1] = <<<<"car", 1>>, <<"bike", 2>>>>
       /\ update(c, <<o>>).counts.by_category["car"] = 1

\* The counting observation's vote lets its category x catch up with the
\* category m that alone held the maximal count before: m reached the
\* maximal count first.
CatchesUp(c, o, x, m) ==
    /\ o.track_id \notin c.counted_track_ids
    /\ ChangesSide(c, o)
    /\ o.coco_class_name \in {"car", "bus", "truck", "motorcycle", "bicycle"}
    /\ x = (IF o.coco_class_name \in {"bicycle", "motorcycle"}
            THEN "bike" ELSE o.coco_class_name)
    /\ m # x
    /\ VotesOf(c, o.track_id, m) = VotesOf(c, o.track_id, x) + 1
    /\ \A other \in VehicleCategory \ {m} :
          VotesOf(c, o.track_id, other) < VotesOf(c, o.track_id, m)

\* C22 as stated: when the counting observation's vote makes its category tie
\* with the category that held the maximal count alone before, the increment
\* goes to that category, which reached the maximal count first.
C22_TieGoesToFirstToReachMax ==
    \A inv \in BOOLEAN :
        LET c == counters[inv] IN
        \A o \in OneTrackObservation : \A x \in VehicleCategory, m \in VehicleCategory :
            CatchesUp(c, o, x, m)
                => update(c, <<o>>).counts.by_category
                     = Bump(c.counts.by_category, m)

\* C22 amended: in that tie the increment goes to the category that reached
\* the maximal count first only if no tied category was voted for before it;
\* if the category that catches up was voted for first, it gets the increment.
C22_TieGoesToFirstToReachMaxIfVotedFirst ==
    \A inv \in BOOLEAN :
        LET c == counters[inv] IN
        \A o \in OneTrackObservation : \A x \in VehicleCategory, m \in VehicleCategory :
            CatchesUp(c, o, x, m)
                => LET xFirst == /\ FirstVoteIndex(c, o.track_id, x) # 0
                                 /\ FirstVoteIndex(c, o.track_id, x)
                                      < FirstVoteIndex(c, o.track_id, m)
                   IN update(c, <<o>>).counts.by_category
                        = Bump(c.counts.by_category, IF xFirst THEN x ELSE m)

\* C22 witness: after the votes bike, car, car a crossing observed as a
\* motorcycle ties bike with car, which reached 2 first; bike, voted first,
\* gets the increment.
C22_Witness ==
    LET c == counters[TRUE]
        o == [track_id |-> 1, center_xy |-> <<5, 5>>,
              coco_class_name |-> "motorcycle", is_confirmed |-> TRUE]
    IN /\ CatchesUp(c, o, "bike", "car")
       /\ c.category_votes[1] = <<<<"bike", 1>>, <<"car", 2>>>>
       /\ update(c, <<o>>).counts.by_category["bike"] = 1

(***************************************************************************)
(* Properties of the recorded votes and sides                              *)
(***************************************************************************)

\* C23: whatever the state and the observation (inside the margin, first
\* sighting, track already counted), an observation with a mapped label adds
\* exactly 1 to its track's votes for the label's category and changes no
\* other vote count, an observation with another label changes none; from
\* one state to the next no vote count gets smaller.
C23_EveryMappedObservationVotes ==
    /\ [](\A inv \in BOOLEAN : \A o \in TrackObservation :
            LET c == counters[inv]
                r == update(c, <<o>>)
                voted == IF o.coco_class_name \in {"bicycle", "motorcycle"}
                         THEN "bike" ELSE o.coco_class_name
            IN \A t \in TrackIds : \A category \in VehicleCategory :
                  VotesOf(r, t, category)
                    = VotesOf(c, t, category)
                        + (IF t = o.track_id /\ category = voted THEN 1 ELSE 0))
    /\ [][\A inv \in BOOLEAN : \A t \in TrackIds : \A category \in VehicleCategory :
            VotesOf(counters'[inv], t, category)
                >= VotesOf(counters[inv], t, category)]_vars

\* C23 witness: track 1 is counted and holds one car vote; an observation of
\* it with a car label on the line, inside the margin, gives it a second one.
C23_Witness ==
    LET c == counters[FALSE]
        o == [track_id |-> 1, center_xy |-> <<5, 10>>,
              coco_class_name |-> "car", is_confirmed |-> TRUE]
    IN /\ 1 \in c.counted_track_ids
       /\ VotesOf(c, 1, "car") = 1
       /\ InBand(c, 10)
       /\ VotesOf(update(c, <<o>>), 1, "car") = 2

\* C24: a track that has a recorded side has one in the next state too; and
\* whatever the state (track counted or not, with or without votes), an
\* observation above the margin band leaves its track recorded as above and
\* one below the band leaves it recorded as below.
C24_SideFollowsObservation ==
    /\ [](\A inv \in BOOLEAN : \A o \in TrackObservation :
            LET c == counters[inv]
                y == o.center_xy[2]
            IN ~InBand(c, y)
                 => LET r == update(c, <<o>>) IN
                    /\ HasSide(r, o.track_id)
                    /\ r.is_above_by_track[o.track_id]
                         = (IF IsAboveBand(c, y) THEN "True" ELSE "False"))
    /\ [][\A inv \in BOOLEAN : \A t \in TrackIds :
            HasSide(counters[inv], t)
                => /\ HasSide(counters'[inv], t)
                   /\ counters'[inv].is_above_by_track[t] \in {"True", "False"}]_vars

\* C24 witness: track 1 is counted and recorded below the line; an
\* observation of it above the line with a label that is no vehicle records
\* it as above and changes no counter.
C24_Witness ==
    LET c == counters[FALSE]
        o == [track_id |-> 1, center_xy |-> <<5, 5>>,
              coco_class_name |-> "person", is_confirmed |-> TRUE]
        r == update(c, <<o>>)
    IN /\ 1 \in c.counted_track_ids
       /\ c.is_above_by_track[1] = "False"
       /\ IsAboveBand(c, 5)
       /\ r.is_above_by_track[1] = "True"
       /\ r.counts = c.counts

(***************************************************************************)
(* Properties of the tracks SimpleTracker keeps                            *)
(***************************************************************************)

\* C25: a track that a call matches with a detection has, after the call,
\* the detection's anchor and the call's frame as last_seen_frame and its
\* old id and class label; a live track the call does not match is after the
\* call as it was before.
C25_MatchMovesAnchorOnly ==
    [][LET f == last_frame'
           live == LiveAt(tracker, f)
       IN /\ \A i \in 1..Len(assignments') :
                LET tid == assignments'[i][1] IN
                tid \in live
                   => /\ tid \in DOMAIN tracker'.tracks
                      /\ tracker'.tracks[tid].track_id = tid
                      /\ tracker'.tracks[tid].center_xy = last_dets'[i].center_xy
                      /\ tracker'.tracks[tid].last_seen_frame = f
                      /\ tracker'.tracks[tid].class_name
                           = tracker.tracks[tid].class_name
          /\ \A tid \in live \ AssignedIds(assignments') :
                /\ tid \in DOMAIN tracker'.tracks
                /\ tracker'.tracks[tid] = tracker.tracks[tid]]_vars

\* C25 witness: of two tracks at (0,0) and (9,0), a detection at (3,0) of
\* their class is matched with the first, which moves to (3,0); the second
\* stays as it was.
C25_Witness ==
    /\ DOMAIN tracker.tracks = {1, 2}
    /\ tracker.tracks[1].center_xy = <<0, 0>>
    /\ tracker.tracks[2].center_xy = <<9, 0>>
    /\ tracker.tracks[1].class_name = tracker.tracks[2].class_name
    /\ LET r == TrackerUpdate(tracker,
                              <<[center_xy |-> <<3, 0>>,
                                 class_name |-> tracker.tracks[1].class_name]>>,
                              last_frame + 1)
       IN /\ r.assignments[1][1] = 1
          /\ r.tracker.tracks[1].center_xy = <<3, 0>>
          /\ r.tracker.tracks[1].last_seen_frame = last_frame + 1
          /\ r.tracker.tracks[2] = tracker.tracks[2]

(***************************************************************************)
(* Properties of crossings without a category and of the sums              *)
(***************************************************************************)

\* C26: an observation that makes a not yet counted track without any vote
\* change side changes neither the counters nor the counted set; if a later
\* observation with a mapped label makes the track change side again, that
\* one adds 1 to total and adds the track to the counted set, and no
\* observation after that changes the counters.
C26_VotelessCrossingStaysEligible ==
    \A inv \in BOOLEAN :
        LET c == counters[inv] IN
        \A o \in OneTrackObservation :
            (/\ o.track_id \notin c.counted_track_ids
             /\ ChangesSide(c, o)
             /\ VotedCategories(c, o) = {})
                => LET r1 == update(c, <<o>>) IN
                   /\ r1.counts = c.counts
                   /\ r1.counted_track_ids = c.counted_track_ids
                   /\ \A o2 \in OneTrackObservation :
                         (IsMapped(o2.coco_class_name) /\ ChangesSide(r1, o2))
                            => LET r2 == update(r1, <<o2>>) IN
                               /\ r2.counts.total = c.counts.total + 1
                               /\ r2.counted_track_ids
                                    = c.counted_track_ids \cup {o.track_id}
                               /\ \A o3 \in OneTrackObservation :
                                     update(r2, <<o3>>).counts = r2.counts

\* C26 witness: track 1, recorded above and without votes, is seen below as
\* a person (no count) and then above as a truck, which counts it once.
C26_Witness ==
    LET c == counters[FALSE]
        o == [track_id |-> 1, center_xy |-> <<5, 15>>,
              coco_class_name |-> "person", is_confirmed |-> TRUE]
        o2 == [track_id |-> 1, center_xy |-> <<5, 5>>,
               coco_class_name |-> "truck", is_confirmed |-> TRUE]
        r1 == update(c, <<o>>)
        r2 == update(r1, <<o2>>)
    IN /\ c.counted_track_ids = {}
       /\ ~HasVotes(c, 1)
       /\ ChangesSide(c, o)
       /\ r1.counted_track_ids = {}
       /\ r1.counts.total = 0
       /\ r2.counted_track_ids = {1}
       /\ r2.counts.by_category["truck"] = 1
       /\ r2.counts.total = 1

\* The sum of a per-category counter over the four categories.
CategorySum(f) == f["car"] + f["bike"] + f["bus"] + f["truck"]

\* C27: in every reachable state total is the sum of by_category, total_in
\* the sum of by_category_in and total_out the sum of by_category_out.
C27_TotalsAreCategorySums ==
    \A inv \in BOOLEAN :
        LET k == counters[inv].counts IN
        /\ k.total = CategorySum(k.by_category)
        /\ k.total_in = CategorySum(k.by_category_in)
        /\ k.total_out = CategorySum(k.by_category_out)

\* C27 witness: a car counted "in" and a bus counted "out".
C27_Witness ==
    LET k == counters[FALSE].counts IN
    /\ k.total = 2
    /\ k.by_category_in["car"] = 1
    /\ k.by_category_out["bus"] = 1

(***************************************************************************)
(* Properties of distance ties in SimpleTracker                            *)
(***************************************************************************)

\* C28: when the live tracks of a detection's class that earlier detections
\* of the call have not taken include one within max_match_distance_px, the
\* detection is returned with the smallest id among those of them that are
\* nearest to it.
C28_DistanceTieGoesToSmallestId ==
    [][\A i \in 1..Len(last_dets') :
         LET taken == {assignments'[j][1] : j \in 1..(i - 1)}
             nearest == NearestIn(tracker, LiveAt(tracker, last_frame') \ taken,
                                  last_dets'[i])
         IN (\E tid \in nearest : Reaches(tracker, tid, last_dets'[i]))
               => /\ assignments'[i][1] \in nearest
                  /\ \A tid \in nearest : assignments'[i][1] <= tid]_vars

\* C28 witness: tracks 1 and 2 of one class stand on the same anchor; a
\* detection of that class within reach of both is returned with id 1.
C28_Witness ==
    /\ DOMAIN tracker.tracks = {1, 2}
    /\ tracker.tracks[1].center_xy = tracker.tracks[2].center_xy
    /\ tracker.tracks[1].class_name = tracker.tracks[2].class_name
    /\ tracker.tracks[1].center_xy = <<3, 0>>
    /\ LET r == TrackerUpdate(tracker,
                              <<[center_xy |-> <<0, 0>>,
                                 class_name |-> tracker.tracks[1].class_name]>>,
                              last_frame + 1)
       IN /\ r.assignments[1][1] = 1
          /\ r.tracker.tracks[2] = tracker.tracks[2]

====
